---- MODULE Spec2Model ----
(***************************************************************************)
(* HelloMix backend: the life cycle of one exchange request.               *)
(*                                                                         *)
(* State: the transactions and payments tables, the price cache (redis)    *)
(* and the price_cache table, the wallet manager's key map, the block      *)
(* explorer's view of the deposit address, the simulated background task   *)
(* that CreateTransaction launches and the ProcessTransaction goroutines   *)
(* that StartPaymentMonitoring launches.                                   *)
(*                                                                         *)
(* Representation of numbers.  Coin amounts (float64 / decimal(18,8) in    *)
(* the code) are integers counting units of 1e-5 coin, so 0.01 BTC is      *)
(* 1000; satoshi amounts are integers; a rate r is carried as r*1000       *)
(* (0.005 is 5); a percentage p is carried as p*10 (100% is 1000, the      *)
(* tolerance 99.9..100.1 is 999..1001); USD prices are whole dollars.      *)
(* Float products and quotients are computed exactly and truncated to the  *)
(* unit.                                                                   *)
(***************************************************************************)
EXTENDS Integers, Sequences, FiniteSets, TLC

VARIABLES transactions, payments, asyncTask, monitors,
          chain, priceCache, priceDB, addresses, wallets, call,
          priceCalls, rateLimiter

vars == <<transactions, payments, asyncTask, monitors,
          chain, priceCache, priceDB, addresses, wallets, call,
          priceCalls, rateLimiter>>

----------------------------------------------------------------------------
(* Bounds *)

\* ProcessTransaction goroutines that run at the same time
MaxMonitors == 1
\* rows of the payments table (no StartPaymentMonitoring call once the rows
\* and the running goroutines reach it)
MaxPayments == 2
\* ticker ticks that fit in the watch window (30 min / 30 s = 60 in the code)
WatchTicks == 2
\* requests that CreateTransaction persists
MaxRequests == 2

----------------------------------------------------------------------------
(* models.go: status constants *)

StatusPending == "pending"
StatusWaiting == "waiting"
StatusProcessing == "processing"
StatusCompleted == "completed"
StatusFailed == "failed"
StatusExpired == "expired"

\* the transactions.final_output column before any write (SQL NULL)
NullOutput == -1

\* satoshis per amount unit: BTCToSatoshis multiplies by 1e8 per coin,
\* the amount unit is 1e-5 coin
SatsPerUnit == 1000

\* the request the model follows: the CreateTransaction call that draws this
\* id (uuid.New()) and the row it inserts
TxIds == {1}

\* the ids that uuid.New() gives to the requests
RequestIds == 1..MaxRequests

Monitors == 1..MaxMonitors

----------------------------------------------------------------------------
(* pkg/crypto: unit conversions *)

BTCToSatoshis(btc) == btc * SatsPerUnit

SatoshisToBTC(satoshis) == satoshis \div SatsPerUnit

----------------------------------------------------------------------------
(* price_service.go *)

Symbols == {"BTC", "ETH", "USDT", "USDC", "ADA", "SOL", "MATIC"}

\* upstream answers of the price API (whole USD per coin): the quote of the
\* README's example
Quotes ==
  { [s \in Symbols |->
       CASE s = "BTC" -> 45000 [] s = "ETH" -> 3200 [] s = "SOL" -> 110
         [] OTHER -> 1] }

\* a price map with no entry (empty cache, empty price_cache table)
NoPrices == [s \in {} |-> 0]

\* the upstream call failed (request error, non-200 status, bad payload)
ApiError == [err |-> TRUE, prices |-> NoPrices]

\* getPricesFromCache that skips the keys it does not find
getPricesFromCache_SkipsMissing(cache) == cache

\* getPricesFromCache: an error (here: NoPrices) unless every key is present
\* (cachePrices writes marshalled floats only, so every value parses)
getPricesFromCache(cache) ==
  IF \A s \in Symbols : s \in DOMAIN cache THEN cache ELSE NoPrices

\* storePricesInDB: one upsert per fetched symbol; a failed Save is logged
storePricesInDB(db, prices, up) ==
  IF up
    THEN [s \in (DOMAIN db) \cup (DOMAIN prices) |->
            IF s \in DOMAIN prices THEN prices[s] ELSE db[s]]
    ELSE db

\* getPricesFromDB: the rows of price_cache, or an error when the query fails
getPricesFromDB(db, up) ==
  IF up THEN [err |-> FALSE, prices |-> db]
        ELSE [err |-> TRUE, prices |-> NoPrices]

\* cachePrices: one key per fetched symbol, the other keys stay
cachePrices(cache, prices) ==
  [s \in (DOMAIN cache) \cup (DOMAIN prices) |->
     IF s \in DOMAIN prices THEN prices[s] ELSE cache[s]]

\* GetPrices with the upstream answer api (ApiError or a quote): the result,
\* the tier it comes from, and the cache and table it leaves
GetPrices(cache, db, up, api) ==
  LET cachedPrices == getPricesFromCache(cache) IN
  IF DOMAIN cachedPrices # {}
    THEN [err |-> FALSE, prices |-> cachedPrices, tier |-> "cache",
          cache |-> cache, db |-> db]
    ELSE IF api.err
      THEN LET r == getPricesFromDB(db, up)
           IN [err |-> r.err, prices |-> r.prices, tier |-> "db",
               cache |-> cache, db |-> db]
      ELSE [err |-> FALSE, prices |-> api.prices, tier |-> "api",
            cache |-> cachePrices(cache, api.prices),
            db |-> storePricesInDB(db, api.prices, up)]

\* the arithmetic of CalculateExchangeRate on a price map that has both symbols
ConvertAmount(prices, fromCurrency, toCurrency, amount) ==
  (amount * prices[fromCurrency]) \div prices[toCurrency]

\* CalculateExchangeRate on the result r of GetPrices
CalculateExchangeRate(r, fromCurrency, toCurrency, amount) ==
  IF r.err \/ fromCurrency \notin DOMAIN r.prices
           \/ toCurrency \notin DOMAIN r.prices
    THEN [err |-> TRUE, amount |-> 0]
    ELSE [err |-> FALSE,
          amount |-> ConvertAmount(r.prices, fromCurrency, toCurrency, amount)]

ApiAnswers == {ApiError} \cup {[err |-> FALSE, prices |-> q] : q \in Quotes}

----------------------------------------------------------------------------
(* pkg/crypto/bitcoin.go: AddressValidator.  The validators test the shape  *)
(* of the string; the sample addresses below are one string per shape.     *)

AddrBTC == "1A1zP1eP5QGefi2DMPTfTL5SLmv7DivfNa"
AddrEVM == "0x52908400098527886E0F7030069857D2E4169EE7"
AddrJunk == "invalid_address"
AddrEmpty == ""

validateBitcoinAddress(address) == address = AddrBTC

validateEthereumAddress(address) == address = AddrEVM

\* no sample address has the Cardano or the Solana shape
validateCardanoAddress(address) == FALSE

validateSolanaAddress(address) == FALSE

ValidateAddress(address, currency) ==
  CASE currency = "BTC" -> validateBitcoinAddress(address)
    [] currency \in {"ETH", "USDT", "USDC", "MATIC"} ->
         validateEthereumAddress(address)
    [] currency = "ADA" -> validateCardanoAddress(address)
    [] currency = "SOL" -> validateSolanaAddress(address)
    [] OTHER -> FALSE

----------------------------------------------------------------------------
(* transaction_service.go: validation and quote *)

isSupportedCurrency(currency) == currency \in Symbols

RECURSIVE firstBadAddress(_, _, _)
\* the loop of validateOutputAddresses from index i: 0 when every entry
\* passes, else the index of the first entry that fails
firstBadAddress(outs, currency, i) ==
  IF i > Len(outs) THEN 0
  ELSE IF outs[i].address = AddrEmpty
            \/ ~ValidateAddress(outs[i].address, currency)
            \/ outs[i].percentage <= 0 \/ outs[i].percentage > 1000
    THEN i
    ELSE firstBadAddress(outs, currency, i + 1)

\* the error that the loop body of validateOutputAddresses returns for one
\* entry ("" for nil)
addressError(addr, currency) ==
  IF addr.address = AddrEmpty THEN "address is empty"
  ELSE IF ~ValidateAddress(addr.address, currency)
    THEN "invalid address for currency"
  ELSE IF addr.percentage <= 0 \/ addr.percentage > 1000
    THEN "invalid percentage for address"
  ELSE ""

\* the error that validateOutputAddresses returns ("" for nil)
outputAddressesError(outs, currency) ==
  IF Len(outs) = 0 THEN "at least one output address is required"
  ELSE IF Len(outs) > 7 THEN "maximum 7 output addresses allowed"
  ELSE IF firstBadAddress(outs, currency, 1) = 0 THEN ""
  ELSE addressError(outs[firstBadAddress(outs, currency, 1)], currency)

\* validateOutputAddresses without the test of the maximum
validateOutputAddresses_NoMax(outs, currency) ==
  /\ Len(outs) # 0
  /\ firstBadAddress(outs, currency, 1) = 0

\* validateOutputAddresses: TRUE when it returns nil
validateOutputAddresses(outs, currency) ==
  /\ Len(outs) # 0
  /\ Len(outs) <= 7
  /\ firstBadAddress(outs, currency, 1) = 0

RECURSIVE totalPercentage(_)
totalPercentage(outs) ==
  IF outs = <<>> THEN 0 ELSE Head(outs).percentage + totalPercentage(Tail(outs))

\* validatePercentageAllocation that tests the lower limit only
validatePercentageAllocation_LowerOnly(outs) ==
  ~(totalPercentage(outs) < 999)

\* validatePercentageAllocation: TRUE when it returns nil
validatePercentageAllocation(outs) ==
  ~(totalPercentage(outs) < 999 \/ totalPercentage(outs) > 1001)

\* the fee rate that is the same for every currency
feeRate_Flat(currency) == 5

\* the fee rate of calculateFee and calculateFinalOutput, times 1000
feeRate(currency) == IF currency = "BTC" THEN 2 ELSE 5

calculateFee(btcAmount, currency) == (btcAmount * feeRate(currency)) \div 1000

\* calculateEstimatedOutput; r1 and r2 are the results of the two GetPrices
\* calls that CalculateExchangeRate makes
calculateEstimatedOutput(btcAmount, outputCurrency, r1, r2) ==
  IF outputCurrency = "BTC" THEN [err |-> FALSE, amount |-> btcAmount]
  ELSE LET outputAmount ==
             CalculateExchangeRate(r1, "BTC", outputCurrency, btcAmount)
           fee == calculateFee(btcAmount, outputCurrency)
           feeInOutputCurrency ==
             CalculateExchangeRate(r2, "BTC", outputCurrency, fee)
       IN IF outputAmount.err \/ feeInOutputCurrency.err
            THEN [err |-> TRUE, amount |-> 0]
            ELSE [err |-> FALSE,
                  amount |-> outputAmount.amount - feeInOutputCurrency.amount]

----------------------------------------------------------------------------
(* docker-cleanup-commands.md (pkg/crypto): BlockchainExplorer *)

NoStats == [funded_txo_count |-> 0, funded_txo_sum |-> 0, spent_txo_sum |-> 0]

\* GetAddressInfo that forgets the spent outputs in the confirmed balance
GetAddressInfo_IgnoresSpent(stats) ==
  [TotalReceived |->
     stats.chain_stats.funded_txo_sum + stats.mempool_stats.funded_txo_sum,
   ConfirmedBalance |-> stats.chain_stats.funded_txo_sum,
   UnconfirmedBalance |->
     stats.mempool_stats.funded_txo_sum - stats.mempool_stats.spent_txo_sum]

\* GetAddressInfo: the balances computed from the explorer's statistics
GetAddressInfo(stats) ==
  [TotalReceived |->
     stats.chain_stats.funded_txo_sum + stats.mempool_stats.funded_txo_sum,
   ConfirmedBalance |->
     stats.chain_stats.funded_txo_sum - stats.chain_stats.spent_txo_sum,
   UnconfirmedBalance |->
     stats.mempool_stats.funded_txo_sum - stats.mempool_stats.spent_txo_sum]

\* CheckPayment with the confirmed balance compared the wrong way round
CheckPayment_Inverted(stats, expectedAmount) ==
  LET addressInfo == GetAddressInfo(stats) IN
  [TotalReceived |-> addressInfo.TotalReceived,
   Status |->
     IF addressInfo.ConfirmedBalance <= expectedAmount THEN "confirmed"
     ELSE IF addressInfo.UnconfirmedBalance >= expectedAmount THEN "unconfirmed"
     ELSE "pending",
   Confirmations |->
     IF addressInfo.ConfirmedBalance <= expectedAmount THEN 1 ELSE 0]

\* CheckPayment: the PaymentStatus for the expected amount (the transaction
\* list only fills PaymentTXID: see PaymentTXID below)
CheckPayment(stats, expectedAmount) ==
  LET addressInfo == GetAddressInfo(stats) IN
  [TotalReceived |-> addressInfo.TotalReceived,
   Status |->
     IF addressInfo.ConfirmedBalance >= expectedAmount THEN "confirmed"
     ELSE IF addressInfo.UnconfirmedBalance >= expectedAmount THEN "unconfirmed"
     ELSE "pending",
   Confirmations |->
     IF addressInfo.ConfirmedBalance >= expectedAmount THEN 1 ELSE 0]

\* the address that CheckPayment is asked about, and any other address
DepositAddress == "deposit"
OtherAddress == "other"

\* lines 374-385 and 394-400: tx has an output that pays the address at
\* least the expected amount
HasPayingOutput(tx, expectedAmount) ==
  \E k \in 1..Len(tx.Vout) :
    /\ tx.Vout[k].scriptpubkey_address = DepositAddress
    /\ tx.Vout[k].value >= expectedAmount

\* lines 372-386 and 392-401: the loop over the transactions from the i-th
\* on, txid being PaymentTXID so far; confirmed says which transactions the
\* branch looks at.  The break of lines 383 and 398 leaves the loop over
\* the outputs, and the loop over the transactions goes on.
RECURSIVE ScanTransactions(_, _, _, _, _)
ScanTransactions(txs, i, confirmed, expectedAmount, txid) ==
  IF i > Len(txs) THEN txid
  ELSE ScanTransactions(txs, i + 1, confirmed, expectedAmount,
         IF txs[i].Confirmed = confirmed
              /\ HasPayingOutput(txs[i], expectedAmount)
           THEN txs[i].TXID
           ELSE txid)

\* CheckPayment: the PaymentTXID of the PaymentStatus, from the status that
\* the balances gave and the list of GetAddressTransactions
PaymentTXID(status, txs, expectedAmount) ==
  IF status = "confirmed"
    THEN ScanTransactions(txs, 1, TRUE, expectedAmount, "")
  ELSE IF status = "unconfirmed"
    THEN ScanTransactions(txs, 1, FALSE, expectedAmount, "")
  ELSE ""

\* the zero value of the paymentStatus variable of ProcessTransaction
NoPaymentStatus == [TotalReceived |-> 0, Status |-> "", Confirmations |-> 0]

----------------------------------------------------------------------------
(* the store: status writes of the two services *)

\* TransactionService.UpdateTransactionStatus: the error and the table after
UpdateTransactionStatus(txs, id, status, up) ==
  IF up /\ id \in DOMAIN txs
    THEN [err |-> FALSE, transactions |-> [txs EXCEPT ![id].status = status]]
    ELSE [err |-> TRUE, transactions |-> txs]

\* updateTransactionStatus that writes the status and clears final_output
updateTransactionStatus_ClearsOutput(txs, id, status, up) ==
  IF up /\ id \in DOMAIN txs
    THEN [err |-> FALSE,
          transactions |-> [txs EXCEPT ![id].status = status,
                                       ![id].final_output = NullOutput]]
    ELSE [err |-> TRUE, transactions |-> txs]

\* PaymentProcessor.updateTransactionStatus: the error and the table after
updateTransactionStatus(txs, id, status, up) ==
  IF up /\ id \in DOMAIN txs
    THEN [err |-> FALSE, transactions |-> [txs EXCEPT ![id].status = status]]
    ELSE [err |-> TRUE, transactions |-> txs]

\* calculateFinalOutput at the prices of the README's quote
calculateFinalOutput_AtQuote(r, btcAmount, outputCurrency) ==
  LET q == CHOOSE quote \in Quotes : TRUE IN
  [err |-> FALSE,
   amount |-> (ConvertAmount(q, "BTC", outputCurrency, btcAmount)
                 * (1000 - feeRate(outputCurrency))) \div 1000]

\* PaymentProcessor.calculateFinalOutput on the result r of GetPrices
calculateFinalOutput(r, btcAmount, outputCurrency) ==
  LET outputAmount == CalculateExchangeRate(r, "BTC", outputCurrency, btcAmount)
  IN IF outputAmount.err THEN [err |-> TRUE, amount |-> 0]
     ELSE [err |-> FALSE,
           amount |->
             (outputAmount.amount * (1000 - feeRate(outputCurrency))) \div 1000]

----------------------------------------------------------------------------
(* inputs *)

BTCAmounts == {1000}

OutputLists ==
  { <<>>,
    << [address |-> AddrEVM, percentage |-> 500],
       [address |-> AddrEVM, percentage |-> 500] >>,
    << [address |-> AddrEmpty, percentage |-> 1000] >>,
    << [address |-> AddrJunk, percentage |-> 1000] >>,
    << [address |-> AddrEVM, percentage |-> 0] >>,
    << [address |-> AddrEVM, percentage |-> 600],
       [address |-> AddrEVM, percentage |-> 300] >>,
    [i \in 1..8 |-> [address |-> AddrEVM, percentage |-> 125]] }

\* CreateTransactionRequest values
Requests ==
  [BTCAmount : BTCAmounts, OutputCurrency : {"BTC", "ETH", "DOGE"},
   OutputAddresses : OutputLists]

----------------------------------------------------------------------------
(* state *)

\* call: the last call observed at the service boundary, with what it
\* returned; NoCall before any
NoCall == [fn |-> "none"]

stages == <<StatusWaiting, StatusProcessing, StatusCompleted>>

\* priceCalls: the GetPrices calls in flight, one per calling goroutine:
\* where the call stands (idle: no call; cache: in the loop of
\* getPricesFromCache, about to read the key of currencies[i]; api: past a
\* cache miss, about to fetch), and the map read from the cache so far
PriceCallers == {1, 2}

IdlePriceCall == [pc |-> "idle", i |-> 0, prices |-> NoPrices]

\* rateLimiter: the counter key of one client IP in Redis (count, 0 when
\* the key is absent), the requests of that client admitted since the key
\* was last absent, and the handlers serving that client's requests: where
\* each stands (idle, get, incr) and the count it read
Handlers == {1, 2, 3}

IdleHandler == [pc |-> "idle", current |-> 0]

IdleMonitor ==
  [pc |-> "idle", id |-> 0, ticks |-> 0, readProcessing |-> FALSE,
   paymentStatus |-> NoPaymentStatus]

Init ==
  /\ transactions = <<>>
  /\ payments = <<>>
  /\ asyncTask = [id \in RequestIds |-> "idle"]
  /\ monitors = [m \in Monitors |-> IdleMonitor]
  /\ chain = [chain_stats |-> NoStats, mempool_stats |-> NoStats]
  /\ priceCache = NoPrices
  /\ priceDB = NoPrices
  /\ addresses = <<>>
  /\ wallets = <<>>
  /\ call = NoCall
  /\ priceCalls = [c \in PriceCallers |-> IdlePriceCall]
  /\ rateLimiter = [count |-> 0, admitted |-> 0,
                    handlers |-> [h \in Handlers |-> IdleHandler]]

----------------------------------------------------------------------------
(* TransactionService.CreateTransaction *)

\* btcec.NewPrivateKey in the call for request id: the key that no other
\* call draws, a scalar named after id
NewPrivateKey(id) == id

\* the pay-to-pubkey-hash address of a private key: the hash of its public
\* key under the version of the network, one address per key
AddressOfKey(privateKey) == <<"p2pkh", privateKey>>

\* the keys that the map wm.addresses holds
IssuedKeys(issued) == {issued[a] : a \in DOMAIN issued}

\* GenerateAddressWithKey that hands out the same address at every call
GenerateAddressWithKey_Reuses(issued, id) == AddressOfKey(NewPrivateKey(1))

\* WalletManager.GenerateAddressWithKey: the address of a fresh key
GenerateAddressWithKey(issued, id) == AddressOfKey(NewPrivateKey(id))

\* the ids that named no call of CreateTransaction yet
UnusedIds(ids) ==
  {id \in ids : /\ id \notin DOMAIN transactions
                /\ NewPrivateKey(id) \notin IssuedKeys(addresses)}

\* the error that the validation of CreateTransaction returns (lines 44-56;
\* "" when the request passes)
validationError(req) ==
  IF ~isSupportedCurrency(req.OutputCurrency)
    THEN "unsupported output currency"
  ELSE IF ~validateOutputAddresses(req.OutputAddresses, req.OutputCurrency)
    THEN outputAddressesError(req.OutputAddresses, req.OutputCurrency)
  ELSE IF ~validatePercentageAllocation(req.OutputAddresses)
    THEN "invalid percentage allocation"
  ELSE ""

\* keyOK: btcec.NewPrivateKey succeeds; api1, api2: the upstream answers to
\* the two GetPrices calls; up1, up2: the store accepts their statements;
\* up: the store accepts the insert
CreateTransaction(id, req, keyOK, api1, api2, up1, up2, up) ==
  /\ id \notin DOMAIN transactions
  /\ NewPrivateKey(id) \notin IssuedKeys(addresses)
  /\ IF validationError(req) # "" \/ ~keyOK
       THEN /\ call' = [fn |-> "CreateTransaction", req |-> req,
                        err |-> IF validationError(req) # ""
                                  THEN validationError(req)
                                  ELSE "failed to generate payment address"]
            /\ UNCHANGED <<transactions, payments, asyncTask, monitors,
                           chain, priceCache, priceDB, addresses, wallets, priceCalls, rateLimiter>>
       ELSE
         LET paymentAddress == GenerateAddressWithKey(addresses, id)
             r1 == GetPrices(priceCache, priceDB, up1, api1)
             r2 == GetPrices(r1.cache, r1.db, up2, api2)
             priced == req.OutputCurrency # "BTC"
             second == priced /\ ~CalculateExchangeRate(
                         r1, "BTC", req.OutputCurrency, req.BTCAmount).err
             estimatedOutput ==
               calculateEstimatedOutput(req.BTCAmount, req.OutputCurrency, r1, r2)
             transaction ==
               [btc_amount |-> req.BTCAmount,
                output_currency |-> req.OutputCurrency,
                output_addresses |-> req.OutputAddresses,
                payment_address |-> paymentAddress,
                status |-> StatusPending,
                fee |-> calculateFee(req.BTCAmount, req.OutputCurrency),
                estimated_output |-> estimatedOutput.amount,
                final_output |-> NullOutput]
         IN /\ addresses' = (paymentAddress :> NewPrivateKey(id)) @@ addresses
            /\ priceCache' = IF second THEN r2.cache
                             ELSE IF priced THEN r1.cache ELSE priceCache
            /\ priceDB' = IF second THEN r2.db
                          ELSE IF priced THEN r1.db ELSE priceDB
            /\ IF ~estimatedOutput.err /\ up
                 THEN /\ transactions' = (id :> transaction) @@ transactions
                      /\ asyncTask' = [asyncTask EXCEPT ![id] = "stage1"]
                 ELSE UNCHANGED <<transactions, asyncTask, priceCalls, rateLimiter>>
            /\ call' = [fn |-> "CreateTransaction", req |-> req,
                        err |-> IF estimatedOutput.err
                                  THEN "failed to calculate estimated output"
                                  ELSE IF ~up THEN "failed to create transaction"
                                  ELSE ""]
            /\ UNCHANGED <<payments, monitors, chain, wallets, priceCalls, rateLimiter>>

----------------------------------------------------------------------------
(* TransactionService.processTransactionAsync *)

StageOf(pc) == CASE pc = "stage1" -> 1 [] pc = "stage2" -> 2 [] OTHER -> 3

\* one pass of the loop: sleep, then UpdateTransactionStatus
AsyncStage(id, up) ==
  /\ asyncTask[id] \in {"stage1", "stage2", "stage3"}
  /\ LET i == StageOf(asyncTask[id])
         u == UpdateTransactionStatus(transactions, id, stages[i], up)
     IN /\ transactions' = u.transactions
        /\ asyncTask' = [asyncTask EXCEPT ![id] =
             IF u.err THEN "mark_failed"
             ELSE IF i = 1 THEN "stage2" ELSE IF i = 2 THEN "stage3" ELSE "done"]
  /\ UNCHANGED <<payments, monitors, chain, priceCache, priceDB, addresses, wallets, call, priceCalls, rateLimiter>>

\* the error branch: mark as failed (the error of this write is dropped)
AsyncMarkFailed(id, up) ==
  /\ asyncTask[id] = "mark_failed"
  /\ transactions' =
       UpdateTransactionStatus(transactions, id, StatusFailed, up).transactions
  /\ asyncTask' = [asyncTask EXCEPT ![id] = "done"]
  /\ UNCHANGED <<payments, monitors, chain, priceCache, priceDB, addresses, wallets, call, priceCalls, rateLimiter>>

----------------------------------------------------------------------------
(* PaymentProcessor.StartPaymentMonitoring and ProcessTransaction *)

SetMonitor(m, fields) == monitors' = [monitors EXCEPT ![m] = fields]

\* ProcessTransaction returns; the goroutine ends
Return(mon) == IdleMonitor

\* the goroutines that are running ProcessTransaction
Running == {m \in Monitors : monitors[m].pc # "idle"}

\* go func() { pp.ProcessTransaction(ctx, transactionID) }()
StartPaymentMonitoring(m, id) ==
  /\ monitors[m].pc = "idle"
  /\ \A k \in Monitors : k < m => monitors[k].pc # "idle"
  /\ Len(payments) + Cardinality(Running) < MaxPayments
  /\ SetMonitor(m, [IdleMonitor EXCEPT !.pc = "load", !.id = id])
  /\ UNCHANGED <<transactions, payments, asyncTask, chain, priceCache, priceDB, addresses, wallets, call, priceCalls, rateLimiter>>

\* lines 37-40: read the row into the local variable transaction.  Its
\* columns other than status never change, so later steps read them from the
\* table; of transaction.Status, which the run never refreshes, the code
\* only asks, at line 111, whether it is "processing": readProcessing keeps
\* that answer
PTLoad(m, up) ==
  LET mon == monitors[m] IN
  /\ mon.pc = "load"
  /\ IF up /\ mon.id \in DOMAIN transactions
       THEN SetMonitor(m, [mon EXCEPT !.pc = "set_waiting",
                 !.readProcessing =
                    (transactions[mon.id].status = StatusProcessing)])
       ELSE SetMonitor(m, Return(mon))
  /\ UNCHANGED <<transactions, payments, asyncTask, chain, priceCache, priceDB, addresses, wallets, call, priceCalls, rateLimiter>>

\* lines 44-47: status waiting, then the watch window and the ticker start
PTSetWaiting(m, up) ==
  LET mon == monitors[m]
      u == updateTransactionStatus(transactions, mon.id, StatusWaiting, up)
  IN
  /\ mon.pc = "set_waiting"
  /\ transactions' = u.transactions
  /\ SetMonitor(m, IF u.err THEN Return(mon)
                   ELSE [mon EXCEPT !.pc = "select"])
  /\ UNCHANGED <<payments, asyncTask, chain, priceCache, priceDB, addresses, wallets, call, priceCalls, rateLimiter>>

\* lines 64-68: the watch window is over
PTTimeout(m, up) ==
  LET mon == monitors[m] IN
  /\ mon.pc = "select"
  /\ mon.ticks = WatchTicks
  /\ transactions' =
       updateTransactionStatus(transactions, mon.id, StatusExpired, up).transactions
  /\ SetMonitor(m, Return(mon))
  /\ UNCHANGED <<payments, asyncTask, chain, priceCache, priceDB, addresses, wallets, call, priceCalls, rateLimiter>>

\* lines 70-81 and 119-121: a tick, MonitorPayment and the switch on its
\* answer; explorerOK is FALSE when the explorer call fails
PTTick(m, explorerOK) ==
  LET mon == monitors[m]
      expectedSats == BTCToSatoshis(transactions[mon.id].btc_amount)
      paymentStatus == CheckPayment(chain, expectedSats)
      ticked == [mon EXCEPT !.ticks = mon.ticks + 1]
  IN
  /\ mon.pc = "select"
  /\ mon.ticks < WatchTicks
  /\ SetMonitor(m,
       IF ~explorerOK \/ paymentStatus.Status = "pending" THEN ticked
       ELSE IF paymentStatus.Status = "confirmed"
         THEN [ticked EXCEPT !.pc = "confirmed", !.paymentStatus = paymentStatus]
       ELSE [ticked EXCEPT !.pc = "unconfirmed"])
  /\ UNCHANGED <<transactions, payments, asyncTask, chain, priceCache, priceDB, addresses, wallets, call, priceCalls, rateLimiter>>

\* lines 109-117: on an unconfirmed payment, status processing unless the
\* copy of the row read at line 38 says processing (a failed write is
\* logged); keep polling
HandleUnconfirmed(m, up) ==
  LET mon == monitors[m] IN
  /\ mon.pc = "unconfirmed"
  /\ transactions' =
       IF ~mon.readProcessing
         THEN updateTransactionStatus(
                transactions, mon.id, StatusProcessing, up).transactions
         ELSE transactions
  /\ SetMonitor(m, [mon EXCEPT !.pc = "select"])
  /\ UNCHANGED <<payments, asyncTask, chain, priceCache, priceDB, addresses, wallets, priceCalls, rateLimiter>>

PTUnconfirmed(m, up) ==
  /\ HandleUnconfirmed(m, up)
  /\ UNCHANGED call

\* lines 82-87: status processing on a confirmed payment
PTConfirmed(m, up) ==
  LET mon == monitors[m] IN
  /\ mon.pc = "confirmed"
  /\ transactions' =
       updateTransactionStatus(transactions, mon.id, StatusProcessing, up).transactions
  /\ SetMonitor(m, [mon EXCEPT !.pc = "store"])
  /\ UNCHANGED <<payments, asyncTask, chain, priceCache, priceDB, addresses, wallets, call, priceCalls, rateLimiter>>

\* storePaymentInfo that records the amount received in BTC units in the
\* satoshi column
storePaymentInfo_AmountInBTC(rows, id, paymentStatus, up) ==
  IF up
    THEN Append(rows, [transaction_id |-> id,
                       amount_sats |-> SatoshisToBTC(paymentStatus.TotalReceived),
                       amount_btc |-> SatoshisToBTC(paymentStatus.TotalReceived),
                       confirmations |-> paymentStatus.Confirmations,
                       status |-> paymentStatus.Status])
    ELSE rows

\* storePaymentInfo: the payments table after the insert (a failed insert
\* is logged by the caller)
storePaymentInfo(rows, id, paymentStatus, up) ==
  IF up
    THEN Append(rows, [transaction_id |-> id,
                       amount_sats |-> paymentStatus.TotalReceived,
                       amount_btc |-> SatoshisToBTC(paymentStatus.TotalReceived),
                       confirmations |-> paymentStatus.Confirmations,
                       status |-> paymentStatus.Status])
    ELSE rows

\* lines 89-92
PTStorePaymentInfo(m, up) ==
  LET mon == monitors[m] IN
  /\ mon.pc = "store"
  /\ payments' = storePaymentInfo(payments, mon.id, mon.paymentStatus, up)
  /\ SetMonitor(m, [mon EXCEPT !.pc = "exchange",
                               !.paymentStatus = NoPaymentStatus])
  /\ UNCHANGED <<transactions, asyncTask, chain, priceCache, priceDB, addresses, wallets, call, priceCalls, rateLimiter>>

\* processExchange that logs the error of calculateFinalOutput and goes on
processExchange_IgnoresError(txs, id, finalOutput, up) ==
  [err |-> FALSE,
   transactions |->
     IF up /\ id \in DOMAIN txs /\ ~finalOutput.err
       THEN [txs EXCEPT ![id].final_output = finalOutput.amount]
       ELSE txs]

\* processExchange: the error it returns and the transactions table after
\* (a failed write of final_output is logged, the function returns nil)
processExchange(txs, id, finalOutput, up) ==
  IF finalOutput.err THEN [err |-> TRUE, transactions |-> txs]
  ELSE [err |-> FALSE,
        transactions |->
          IF up /\ id \in DOMAIN txs
            THEN [txs EXCEPT ![id].final_output = finalOutput.amount]
            ELSE txs]

\* lines 94-99: processExchange with the copy of the row read at line 38
\* upPrices: the store accepts the statements of GetPrices
PTProcessExchange(m, api, upPrices, up) ==
  LET mon == monitors[m]
      row == transactions[mon.id]
      r == GetPrices(priceCache, priceDB, upPrices, api)
      x == processExchange(transactions, mon.id,
             calculateFinalOutput(r, row.btc_amount, row.output_currency), up)
  IN
  /\ mon.pc = "exchange"
  /\ priceCache' = r.cache
  /\ priceDB' = r.db
  /\ transactions' = x.transactions
  /\ SetMonitor(m, [mon EXCEPT !.pc = IF x.err THEN "mark_failed"
                                     ELSE "mark_completed"])
  /\ UNCHANGED <<payments, asyncTask, chain, addresses, wallets, call, priceCalls, rateLimiter>>

\* lines 97-98: status failed (the error of this write is dropped), return err
PTMarkFailed(m, up) ==
  LET mon == monitors[m] IN
  /\ mon.pc = "mark_failed"
  /\ transactions' =
       updateTransactionStatus(transactions, mon.id, StatusFailed, up).transactions
  /\ SetMonitor(m, Return(mon))
  /\ UNCHANGED <<payments, asyncTask, chain, priceCache, priceDB, addresses, wallets, call, priceCalls, rateLimiter>>

\* lines 101-107: status completed (a failed write is logged), return nil
PTMarkCompleted(m, up) ==
  LET mon == monitors[m] IN
  /\ mon.pc = "mark_completed"
  /\ transactions' =
       updateTransactionStatus(transactions, mon.id, StatusCompleted, up).transactions
  /\ SetMonitor(m, Return(mon))
  /\ UNCHANGED <<payments, asyncTask, chain, priceCache, priceDB, addresses, wallets, call, priceCalls, rateLimiter>>

----------------------------------------------------------------------------
(* environment: the payer, the chain, the store, the cache *)

Deposits == chain.chain_stats.funded_txo_count + chain.mempool_stats.funded_txo_count

\* the payer broadcasts the payment of sats satoshis to the deposit address
\* (the address is issued for one payment; the payer pays once)
Broadcast(id, sats) ==
  /\ id \in DOMAIN transactions
  /\ Deposits = 0
  /\ chain' = [chain EXCEPT
       !.mempool_stats.funded_txo_count = @ + 1,
       !.mempool_stats.funded_txo_sum = @ + sats]
  /\ UNCHANGED <<transactions, payments, asyncTask, monitors, priceCache, priceDB, addresses, wallets, call, priceCalls, rateLimiter>>

\* a block confirms what is in the mempool
Confirm ==
  /\ chain.mempool_stats.funded_txo_count > 0
  /\ chain' = [chain EXCEPT
       !.chain_stats.funded_txo_count = @ + chain.mempool_stats.funded_txo_count,
       !.chain_stats.funded_txo_sum = @ + chain.mempool_stats.funded_txo_sum,
       !.mempool_stats = NoStats]
  /\ UNCHANGED <<transactions, payments, asyncTask, monitors, priceCache, priceDB, addresses, wallets, call, priceCalls, rateLimiter>>

\* the cached prices reach their expiry (cacheExpiry, 5 minutes)
CacheExpires ==
  /\ priceCache # NoPrices
  /\ priceCache' = NoPrices
  /\ UNCHANGED <<transactions, payments, asyncTask, monitors, chain, priceDB, addresses, wallets, call, priceCalls, rateLimiter>>

----------------------------------------------------------------------------

\* In the steps below up, up1, up2 and upPrices say whether the store
\* executes the statement (TRUE) or fails it with an error (FALSE).

Create ==
  \E id \in UnusedIds(TxIds) :
    \E req \in Requests, keyOK \in BOOLEAN, api1 \in ApiAnswers,
       api2 \in ApiAnswers, up1 \in BOOLEAN, up2 \in BOOLEAN, up \in BOOLEAN :
         CreateTransaction(id, req, keyOK, api1, api2, up1, up2, up)

\* a step of the goroutine that CreateTransaction launched for id
AsyncStep(id) ==
  \/ \E up \in BOOLEAN : AsyncStage(id, up)
  \/ \E up \in BOOLEAN : AsyncMarkFailed(id, up)

\* a step of the goroutine m that runs ProcessTransaction
PTStep(m) ==
  \/ \E up \in BOOLEAN : PTLoad(m, up)
  \/ \E up \in BOOLEAN : PTSetWaiting(m, up)
  \/ \E up \in BOOLEAN : PTTimeout(m, up)
  \/ \E explorerOK \in BOOLEAN : PTTick(m, explorerOK)
  \/ \E up \in BOOLEAN : PTUnconfirmed(m, up)
  \/ \E up \in BOOLEAN : PTConfirmed(m, up)
  \/ \E up \in BOOLEAN : PTStorePaymentInfo(m, up)
  \/ \E api \in ApiAnswers, upPrices \in BOOLEAN, up \in BOOLEAN :
       PTProcessExchange(m, api, upPrices, up)
  \/ \E up \in BOOLEAN : PTMarkFailed(m, up)
  \/ \E up \in BOOLEAN : PTMarkCompleted(m, up)

Pay ==
  \E id \in DOMAIN transactions :
    Broadcast(id, BTCToSatoshis(transactions[id].btc_amount))

Next ==
  \/ Create
  \/ \E id \in TxIds : AsyncStep(id)
  \/ \E m \in Monitors, id \in TxIds : StartPaymentMonitoring(m, id)
  \/ \E m \in Monitors : PTStep(m)
  \/ Pay
  \/ Confirm
  \/ CacheExpires

Spec == Init /\ [][Next]_vars

\* The Go scheduler runs every goroutine that can run, and the timers of the
\* sleeps, of the ticker and of the watch window fire: no goroutine waits
\* forever before a step it can take.  Nothing obliges the callers, the
\* payer or the chain to act.
Fairness ==
  /\ \A id \in TxIds : WF_vars(AsyncStep(id))
  /\ \A m \in Monitors : WF_vars(PTStep(m))

SpecLive == Spec /\ Fairness

----------------------------------------------------------------------------
(* TransactionService.CreateTransaction called with any request *)

WideOutputLists ==
  { << [address |-> AddrEVM, percentage |-> 999] >>,
    << [address |-> AddrEVM, percentage |-> 1001] >>,
    << [address |-> AddrEVM, percentage |-> 500],
       [address |-> AddrEVM, percentage |-> 501] >>,
    << [address |-> AddrEVM, percentage |-> 600],
       [address |-> AddrEVM, percentage |-> 600] >>,
    << [address |-> AddrEVM, percentage |-> 0],
       [address |-> AddrJunk, percentage |-> 500] >>,
    [i \in 1..7 |->
       [address |-> AddrEVM, percentage |-> IF i = 7 THEN 142 ELSE 143]] }

\* requests for creation: every list with a supported asset, one valid
\* request for BTC, and requests that break the rule of the asset
WideRequests ==
  [BTCAmount : BTCAmounts, OutputCurrency : {"ETH"},
   OutputAddresses : OutputLists \cup WideOutputLists]
  \cup [BTCAmount : BTCAmounts, OutputCurrency : {"BTC"},
        OutputAddresses : {<< [address |-> AddrBTC, percentage |-> 1000] >>,
                           << [address |-> AddrEVM, percentage |-> 1000] >>}]
  \cup [BTCAmount : BTCAmounts, OutputCurrency : {"DOGE"},
        OutputAddresses : {<<>>, << [address |-> AddrEVM, percentage |-> 1000] >>}]

RejectedRequests == {r \in WideRequests : validationError(r) # ""}

ValidatedRequests == {r \in WideRequests : validationError(r) = ""}

\* a call that the validation rejects: nothing else is consulted
CreateRejected ==
  \E id \in UnusedIds(RequestIds) :
    \E req \in RejectedRequests :
      CreateTransaction(id, req, TRUE, ApiError, ApiError, TRUE, TRUE, TRUE)

\* a call that passes the validation and fails to draw a key
CreateKeyFails ==
  \E id \in UnusedIds(RequestIds) :
    \E req \in ValidatedRequests :
      CreateTransaction(id, req, FALSE, ApiError, ApiError, TRUE, TRUE, TRUE)

\* a call that passes the validation and draws a key, under any fault
CreateValidated ==
  \E id \in UnusedIds(RequestIds) :
    \E req \in ValidatedRequests, api1 \in ApiAnswers, api2 \in ApiAnswers,
       up1 \in BOOLEAN, up2 \in BOOLEAN, up \in BOOLEAN :
         CreateTransaction(id, req, TRUE, api1, api2, up1, up2, up)

CreateAny == CreateRejected \/ CreateKeyFails \/ CreateValidated

NextCreate ==
  \/ CreateAny
  \/ CacheExpires

SpecCreate == Init /\ [][NextCreate]_vars

----------------------------------------------------------------------------
(* The keys: WalletService (encrypted rows of the wallets table) and the   *)
(* key map of WalletManager.  A byte is a number below 256; a private key  *)
(* is serialized big-endian on KeyLen bytes (32 in btcec); the nonce of    *)
(* AES-GCM has NonceSize bytes (12 in crypto/cipher) and its tag one byte  *)
(* (16 in crypto/cipher).  The stream cipher adds a key stream where       *)
(* AES-CTR xors it: both are bijections on bytes for a given key and nonce.*)

KeyLen == 2

NonceSize == 1

\* ws.encryptKey: the hash of the master key, fixed at construction
encryptKey == 77

\* privateKey.Serialize
Serialize(privateKey) ==
  [i \in 1..KeyLen |-> (privateKey \div (256 ^ (KeyLen - i))) % 256]

RECURSIVE BigEndian(_, _)
\* the number that the first n bytes write
BigEndian(bytes, n) ==
  IF n = 0 THEN 0 ELSE BigEndian(bytes, n - 1) * 256 + bytes[n]

\* btcec.PrivKeyFromBytes
PrivKeyFromBytes(bytes) == BigEndian(bytes, Len(bytes))

\* hex.EncodeToString: two digits per byte (a digit is a number below 16)
EncodeToString(bytes) ==
  [i \in 1..(2 * Len(bytes)) |->
     IF i % 2 = 1 THEN bytes[(i + 1) \div 2] \div 16 ELSE bytes[i \div 2] % 16]

\* hex.DecodeString: an error on an odd number of digits
DecodeString(digits) ==
  IF Len(digits) % 2 = 1 THEN [err |-> TRUE, bytes |-> <<>>]
  ELSE [err |-> FALSE,
        bytes |-> [i \in 1..(Len(digits) \div 2) |->
                     digits[2 * i - 1] * 16 + digits[2 * i]]]

\* byte i of the key stream of a nonce under ws.encryptKey
KeyStream(nonce, i) == (encryptKey + BigEndian(nonce, Len(nonce)) + i) % 256

RECURSIVE SumBytes(_, _)
SumBytes(bytes, n) ==
  IF n = 0 THEN 0 ELSE bytes[n] + SumBytes(bytes, n - 1)

\* the authentication tag of a ciphertext under ws.encryptKey
Tag(nonce, ciphertext) ==
  (encryptKey + BigEndian(nonce, Len(nonce))
     + SumBytes(ciphertext, Len(ciphertext))) % 256

\* WalletService.encrypt: gcm.Seal(nonce, nonce, data, nil), the nonce
\* followed by the ciphertext and its tag; rndOK: rand.Reader fills the nonce
encrypt(data, nonce, rndOK) ==
  IF ~rndOK THEN [err |-> TRUE, ciphertext |-> <<>>]
  ELSE LET sealed == [i \in 1..Len(data) |->
                        (data[i] + KeyStream(nonce, i)) % 256]
       IN [err |-> FALSE,
           ciphertext |-> nonce \o sealed \o <<Tag(nonce, sealed)>>]

\* decrypt that takes the ciphertext, nonce included, for the plaintext
decrypt_NoOpen(data) ==
  [err |-> FALSE, plaintext |-> SubSeq(data, 1, KeyLen)]

\* WalletService.decrypt: splits the nonce off, gcm.Open checks the tag
decrypt(data) ==
  IF Len(data) < NonceSize THEN [err |-> TRUE, plaintext |-> <<>>]
  ELSE LET nonce == SubSeq(data, 1, NonceSize)
           ciphertext == SubSeq(data, NonceSize + 1, Len(data))
           sealed == SubSeq(ciphertext, 1, Len(ciphertext) - 1)
       IN IF \/ Len(ciphertext) < 1
             \/ ciphertext[Len(ciphertext)] # Tag(nonce, sealed)
            THEN [err |-> TRUE, plaintext |-> <<>>]
            ELSE [err |-> FALSE,
                  plaintext |-> [i \in 1..Len(sealed) |->
                                   (sealed[i] + 256 - KeyStream(nonce, i)) % 256]]

\* the calls that draw a key in this specification, and their addresses
VaultIds == {1, 258}

VaultAddresses == {AddressOfKey(NewPrivateKey(id)) : id \in VaultIds}

Nonces == {<<3>>, <<200>>}

\* WalletService.StorePrivateKey; the wallets table takes one row per
\* address (address is UNIQUE); up: the store accepts the insert
StorePrivateKey(address, privateKey, nonce, rndOK, up) ==
  LET encryptedKey == encrypt(Serialize(privateKey), nonce, rndOK)
      wallet == [encrypted_priv_key |-> EncodeToString(encryptedKey.ciphertext),
                 is_active |-> TRUE]
      err == IF encryptedKey.err THEN "failed to encrypt private key"
             ELSE IF ~up \/ address \in DOMAIN wallets
               THEN "failed to store wallet"
             ELSE ""
  IN
  /\ wallets' = IF err = "" THEN (address :> wallet) @@ wallets ELSE wallets
  /\ call' = [fn |-> "StorePrivateKey", address |-> address,
              privateKey |-> privateKey, err |-> err]
  /\ UNCHANGED <<transactions, payments, asyncTask, monitors, chain,
                 priceCache, priceDB, addresses, priceCalls, rateLimiter>>

\* what WalletService.GetPrivateKey returns; up: the store answers the query
releasePrivateKey(table, address, up) ==
  IF ~up THEN [err |-> "failed to get wallet", privateKey |-> 0]
  ELSE IF address \notin DOMAIN table \/ ~table[address].is_active
    THEN [err |-> "private key not found for address", privateKey |-> 0]
  ELSE
    LET encryptedBytes == DecodeString(table[address].encrypted_priv_key)
        privateKeyBytes == decrypt(encryptedBytes.bytes)
    IN IF encryptedBytes.err
         THEN [err |-> "failed to decode encrypted key", privateKey |-> 0]
       ELSE IF privateKeyBytes.err
         THEN [err |-> "failed to decrypt private key", privateKey |-> 0]
       ELSE [err |-> "",
             privateKey |-> PrivKeyFromBytes(privateKeyBytes.plaintext)]

\* WalletService.GetPrivateKey
GetPrivateKey(address, up) ==
  LET r == releasePrivateKey(wallets, address, up) IN
  /\ call' = [fn |-> "GetPrivateKey", address |-> address, up |-> up,
              privateKey |-> r.privateKey, err |-> r.err]
  /\ UNCHANGED <<transactions, payments, asyncTask, monitors, chain,
                 priceCache, priceDB, addresses, wallets, priceCalls, rateLimiter>>

\* DeactivateWallet that deletes the row
DeactivateWallet_Deletes(table, address, up) ==
  IF ~up THEN [err |-> "failed to deactivate wallet", wallets |-> table]
  ELSE IF address \notin DOMAIN table
    THEN [err |-> "wallet not found", wallets |-> table]
  ELSE [err |-> "",
        wallets |-> [a \in DOMAIN table \ {address} |-> table[a]]]

\* what WalletService.DeactivateWallet returns and the table after;
\* up: the store accepts the update
deactivateWallet(table, address, up) ==
  IF ~up THEN [err |-> "failed to deactivate wallet", wallets |-> table]
  ELSE IF address \notin DOMAIN table
    THEN [err |-> "wallet not found", wallets |-> table]
  ELSE [err |-> "",
        wallets |-> [table EXCEPT ![address].is_active = FALSE]]

\* WalletService.DeactivateWallet
DeactivateWallet(address, up) ==
  LET r == deactivateWallet(wallets, address, up) IN
  /\ wallets' = r.wallets
  /\ call' = [fn |-> "DeactivateWallet", address |-> address, up |-> up,
              err |-> r.err]
  /\ UNCHANGED <<transactions, payments, asyncTask, monitors, chain,
                 priceCache, priceDB, addresses, priceCalls, rateLimiter>>

\* WalletManager.GenerateAddressWithKey called on its own;
\* keyOK: btcec.NewPrivateKey succeeds
WalletManagerGenerate(id, keyOK) ==
  LET address == GenerateAddressWithKey(addresses, id) IN
  /\ NewPrivateKey(id) \notin IssuedKeys(addresses)
  /\ addresses' = IF keyOK THEN (address :> NewPrivateKey(id)) @@ addresses
                  ELSE addresses
  /\ call' = [fn |-> "GenerateAddressWithKey",
              address |-> IF keyOK THEN address ELSE "",
              err |-> IF keyOK THEN "" ELSE "failed to generate private key"]
  /\ UNCHANGED <<transactions, payments, asyncTask, monitors, chain,
                 priceCache, priceDB, wallets, priceCalls, rateLimiter>>

\* WalletManager.GetPrivateKey
WalletManagerGetPrivateKey(address) ==
  /\ call' = IF address \in DOMAIN addresses
               THEN [fn |-> "WalletManager.GetPrivateKey", address |-> address,
                     privateKey |-> addresses[address], err |-> ""]
               ELSE [fn |-> "WalletManager.GetPrivateKey", address |-> address,
                     privateKey |-> 0,
                     err |-> "private key not found for address"]
  /\ UNCHANGED <<transactions, payments, asyncTask, monitors, chain,
                 priceCache, priceDB, addresses, wallets, priceCalls, rateLimiter>>

Generate ==
  \E id \in VaultIds, keyOK \in BOOLEAN : WalletManagerGenerate(id, keyOK)

Store ==
  \E id \in VaultIds, nonce \in Nonces, rndOK \in BOOLEAN, up \in BOOLEAN :
    StorePrivateKey(AddressOfKey(NewPrivateKey(id)), NewPrivateKey(id),
                    nonce, rndOK, up)

Release ==
  \/ \E address \in VaultAddresses, up \in BOOLEAN : GetPrivateKey(address, up)
  \/ \E address \in VaultAddresses : WalletManagerGetPrivateKey(address)

Deactivate ==
  \E address \in VaultAddresses, up \in BOOLEAN : DeactivateWallet(address, up)

NextVault ==
  \/ Generate
  \/ Store
  \/ Release
  \/ Deactivate

SpecVault == Init /\ [][NextVault]_vars

----------------------------------------------------------------------------
(* PriceService called on its own.  Here the arithmetic of                 *)
(* CalculateExchangeRate is that of a binary float: a value is m * 2^e     *)
(* with a mantissa m of FloatBits bits (53 in float64), and every product  *)
(* and quotient is rounded to the nearest such value, ties to even.        *)

FloatBits == 13

RECURSIVE RoundRatio(_, _, _)
\* the float nearest to (num / den) * 2^e
RoundRatio(num, den, e) ==
  IF num = 0 THEN [m |-> 0, e |-> 0]
  ELSE IF num >= den * (2 ^ FloatBits) THEN RoundRatio(num, den * 2, e + 1)
  ELSE IF num < den * (2 ^ (FloatBits - 1)) THEN RoundRatio(num * 2, den, e - 1)
  ELSE LET q == num \div den
           rem == num % den
           up == 2 * rem > den \/ (2 * rem = den /\ q % 2 = 1)
       IN IF ~up THEN [m |-> q, e |-> e]
          ELSE IF q + 1 = 2 ^ FloatBits
            THEN [m |-> 2 ^ (FloatBits - 1), e |-> e + 1]
          ELSE [m |-> q + 1, e |-> e]

\* the float of a whole number
Float(n) == RoundRatio(n, 1, 0)

FloatMul(a, b) == RoundRatio(a.m * b.m, 1, a.e + b.e)

FloatDiv(a, b) == RoundRatio(a.m, b.m, a.e - b.e)

\* CalculateExchangeRate on the result r of GetPrices, in floats
FloatExchangeRate(r, fromCurrency, toCurrency, amount) ==
  IF r.err \/ fromCurrency \notin DOMAIN r.prices
           \/ toCurrency \notin DOMAIN r.prices
    THEN [err |-> TRUE, result |-> Float(0)]
    ELSE LET usdValue == FloatMul(Float(amount), Float(r.prices[fromCurrency]))
         IN [err |-> FALSE,
             result |-> FloatDiv(usdValue, Float(r.prices[toCurrency]))]

\* upstream answers: a failure, two full quotes, and a response that
\* lacks the entry of one asset
PriceAnswers ==
  ApiAnswers
  \cup {[err |-> FALSE,
         prices |-> [s \in Symbols |->
                       CASE s = "BTC" -> 45000 [] s = "ETH" -> 3000
                         [] s = "SOL" -> 110 [] OTHER -> 1]],
        [err |-> FALSE,
         prices |-> [s \in Symbols \ {"ETH"} |->
                       CASE s = "BTC" -> 45000 [] s = "SOL" -> 110
                         [] OTHER -> 1]]}

ConvertAmounts == {15, 1000}

\* PriceService.GetPrices
GetPricesCall(api, up) ==
  LET r == GetPrices(priceCache, priceDB, up, api) IN
  /\ priceCache' = r.cache
  /\ priceDB' = r.db
  /\ call' = [fn |-> "GetPrices", api |-> api, up |-> up, err |-> r.err,
              prices |-> r.prices, tier |-> r.tier]
  /\ UNCHANGED <<transactions, payments, asyncTask, monitors, chain,
                 addresses, wallets, priceCalls, rateLimiter>>

\* PriceService.CalculateExchangeRate
CalculateExchangeRateCall(fromCurrency, toCurrency, amount, api, up) ==
  LET r == GetPrices(priceCache, priceDB, up, api)
      x == FloatExchangeRate(r, fromCurrency, toCurrency, amount)
  IN
  /\ priceCache' = r.cache
  /\ priceDB' = r.db
  /\ call' = [fn |-> "CalculateExchangeRate", api |-> api, up |-> up,
              fromCurrency |-> fromCurrency, toCurrency |-> toCurrency,
              amount |-> amount, err |-> x.err, result |-> x.result]
  /\ UNCHANGED <<transactions, payments, asyncTask, monitors, chain,
                 addresses, wallets, priceCalls, rateLimiter>>

Fetch ==
  \E api \in PriceAnswers, up \in BOOLEAN : GetPricesCall(api, up)

Convert ==
  \E toCurrency \in {"BTC", "ETH"}, amount \in ConvertAmounts,
     api \in PriceAnswers, up \in BOOLEAN :
       CalculateExchangeRateCall("BTC", toCurrency, amount, api, up)

NextPrices ==
  \/ Fetch
  \/ Convert
  \/ CacheExpires

SpecPrices == Init /\ [][NextPrices]_vars

----------------------------------------------------------------------------
(* GetPrices called by goroutines that run at the same time.  A call reads *)
(* the cache one key at a time (getPricesFromCache), and each read is a    *)
(* step; a call that misses fetches, writes the cache (one pipeline, taken *)
(* as one step) and the table, and returns.  The upstream price moves      *)
(* between two quotes.                                                     *)

\* the order in which getPricesFromCache reads the keys
currencies == <<"BTC", "ETH", "USDT", "USDC", "ADA", "SOL", "MATIC">>

\* upstream answers: a failure, the quote of the README and a later quote
MovingQuotes ==
  Quotes \cup { [s \in Symbols |->
                   CASE s = "BTC" -> 46000 [] s = "ETH" -> 3000
                     [] s = "SOL" -> 110 [] OTHER -> 1] }

MovingAnswers == {ApiError} \cup {[err |-> FALSE, prices |-> q] : q \in MovingQuotes}

SetPriceCall(c, fields) == priceCalls' = [priceCalls EXCEPT ![c] = fields]

\* line 45: a goroutine calls GetPrices, which calls getPricesFromCache
GetPricesStart(c) ==
  /\ priceCalls[c].pc = "idle"
  /\ SetPriceCall(c, [pc |-> "cache", i |-> 1, prices |-> NoPrices])
  /\ UNCHANGED <<transactions, payments, asyncTask, monitors, chain,
                 priceCache, priceDB, addresses, wallets, call, rateLimiter>>

\* lines 136-149: one turn of the loop of getPricesFromCache: the Get of
\* the key; a missing key ends the loop with an error (GetPrices goes on to
\* the API), the last key read ends it with the map, which GetPrices
\* returns (lines 45-47)
GetPricesCacheRead(c) ==
  LET pcall == priceCalls[c]
      currency == currencies[pcall.i]
      prices == [s \in DOMAIN pcall.prices \cup {currency} |->
                   IF s = currency THEN priceCache[s] ELSE pcall.prices[s]]
  IN
  /\ pcall.pc = "cache"
  /\ IF currency \notin DOMAIN priceCache
       THEN /\ SetPriceCall(c, [pc |-> "api", i |-> 0, prices |-> NoPrices])
            /\ UNCHANGED call
       ELSE IF pcall.i < Len(currencies)
         THEN /\ SetPriceCall(c, [pcall EXCEPT !.i = pcall.i + 1,
                                               !.prices = prices])
              /\ UNCHANGED call
         ELSE /\ SetPriceCall(c, IdlePriceCall)
              /\ call' = [fn |-> "GetPrices", caller |-> c, err |-> FALSE,
                          tier |-> "cache", prices |-> prices]
  /\ UNCHANGED <<transactions, payments, asyncTask, monitors, chain,
                 priceCache, priceDB, addresses, wallets, rateLimiter>>

\* lines 50-70: past the cache miss: the fetch, then the cache and the
\* table written and the fetched map returned, or the table read when the
\* fetch fails
GetPricesFetch(c, api, up) ==
  LET r == GetPrices(NoPrices, priceDB, up, api) IN
  /\ priceCalls[c].pc = "api"
  /\ SetPriceCall(c, IdlePriceCall)
  /\ priceCache' = IF api.err THEN priceCache
                   ELSE cachePrices(priceCache, api.prices)
  /\ priceDB' = r.db
  /\ call' = [fn |-> "GetPrices", caller |-> c, err |-> r.err,
              tier |-> r.tier, prices |-> r.prices]
  /\ UNCHANGED <<transactions, payments, asyncTask, monitors, chain,
                 addresses, wallets, rateLimiter>>

NextCache ==
  \/ \E c \in PriceCallers : GetPricesStart(c)
  \/ \E c \in PriceCallers : GetPricesCacheRead(c)
  \/ \E c \in PriceCallers, api \in MovingAnswers, up \in BOOLEAN :
       GetPricesFetch(c, api, up)
  \/ CacheExpires

SpecCache == Init /\ [][NextCache]_vars

----------------------------------------------------------------------------
(* RateLimiter.Middleware serving the requests of one client IP, several   *)
(* at a time.  Redis answers every command.  The steps of a handler take   *)
(* no time against the window; the expiry of the key is the step that      *)
(* ends a window.                                                          *)

\* rl.rateLimit
rateLimit == 2

SetHandler(h, fields, count, admitted) ==
  rateLimiter' = [count |-> count, admitted |-> admitted,
                  handlers |-> [rateLimiter.handlers EXCEPT ![h] = fields]]

LimiterUnchanged ==
  UNCHANGED <<transactions, payments, asyncTask, monitors, chain, priceCache,
              priceDB, addresses, wallets, call, priceCalls>>

\* lines 32-36: a request of the client reaches the middleware
MiddlewareStart(h) ==
  /\ rateLimiter.handlers[h].pc = "idle"
  /\ SetHandler(h, [pc |-> "get", current |-> 0],
                rateLimiter.count, rateLimiter.admitted)
  /\ LimiterUnchanged

\* lines 38-54: the Get of the counter (0 when the key is absent) and the
\* test against the limit: 429 and abort, or on to the increment
MiddlewareGet(h) ==
  LET current == rateLimiter.count IN
  /\ rateLimiter.handlers[h].pc = "get"
  /\ SetHandler(h,
       IF current >= rateLimit THEN IdleHandler
       ELSE [pc |-> "incr", current |-> current],
       rateLimiter.count, rateLimiter.admitted)
  /\ LimiterUnchanged

\* lines 56-65: Incr and Expire in one pipeline, then c.Next(): the request
\* is admitted
MiddlewareIncr(h) ==
  /\ rateLimiter.handlers[h].pc = "incr"
  /\ SetHandler(h, IdleHandler,
                rateLimiter.count + 1, rateLimiter.admitted + 1)
  /\ LimiterUnchanged

\* the counter key reaches its expiry (rl.window after the last Expire)
WindowExpires ==
  /\ rateLimiter.count > 0
  /\ rateLimiter' = [rateLimiter EXCEPT !.count = 0, !.admitted = 0]
  /\ LimiterUnchanged

NextLimiter ==
  \/ \E h \in Handlers : MiddlewareStart(h)
  \/ \E h \in Handlers : MiddlewareGet(h)
  \/ \E h \in Handlers : MiddlewareIncr(h)
  \/ WindowExpires

SpecLimiter == Init /\ [][NextLimiter]_vars

----------------------------------------------------------------------------
(* The life cycle while the prices move: the upstream answers are those of *)
(* PriceAnswers and the store executes every statement.                    *)

CreateAtPrices ==
  \E id \in UnusedIds(TxIds) :
    \E req \in {r \in Requests : validationError(r) = ""},
       api1 \in PriceAnswers, api2 \in PriceAnswers :
         CreateTransaction(id, req, TRUE, api1, api2, TRUE, TRUE, TRUE)

PTStepAtPrices(m) ==
  \/ PTLoad(m, TRUE)
  \/ PTSetWaiting(m, TRUE)
  \/ PTTimeout(m, TRUE)
  \/ \E explorerOK \in BOOLEAN : PTTick(m, explorerOK)
  \/ PTUnconfirmed(m, TRUE)
  \/ PTConfirmed(m, TRUE)
  \/ PTStorePaymentInfo(m, TRUE)
  \/ \E api \in PriceAnswers : PTProcessExchange(m, api, TRUE, TRUE)
  \/ PTMarkFailed(m, TRUE)
  \/ PTMarkCompleted(m, TRUE)

NextReprice ==
  \/ CreateAtPrices
  \/ \E id \in TxIds : AsyncStage(id, TRUE)
  \/ \E m \in Monitors, id \in TxIds : StartPaymentMonitoring(m, id)
  \/ \E m \in Monitors : PTStepAtPrices(m)
  \/ Pay
  \/ Confirm
  \/ CacheExpires

SpecReprice == Init /\ [][NextReprice]_vars

----------------------------------------------------------------------------
(* The life cycle with the status writes of the Unconfirmed branch          *)
(* observed: call records the updateTransactionStatus call of lines         *)
(* 111-115, with the task that made it and the number of the poll it        *)
(* follows.  The store executes every statement, and the upstream answers  *)
(* with the one quote or fails: the prices at settlement are those of the   *)
(* creation.                                                                *)

\* the requests that pass the validation: to one asset other than BTC, and
\* to BTC
QuotedRequests ==
  {r \in Requests : validationError(r) = ""}
  \cup {r \in ValidatedRequests : r.OutputCurrency = "BTC"}

CreateAtQuote ==
  \E id \in UnusedIds(TxIds) :
    \E req \in QuotedRequests, api \in ApiAnswers \ {ApiError} :
         CreateTransaction(id, req, TRUE, api, api, TRUE, TRUE, TRUE)

\* lines 109-117, the call of line 112 recorded when it is made
PTUnconfirmedObserved(m, up) ==
  /\ HandleUnconfirmed(m, up)
  /\ call' = IF ~monitors[m].readProcessing
              THEN [fn |-> "updateTransactionStatus", id |-> monitors[m].id,
                    status |-> StatusProcessing, task |-> m,
                    poll |-> monitors[m].ticks]
              ELSE call

PTStepObserved(m) ==
  \/ PTLoad(m, TRUE)
  \/ PTSetWaiting(m, TRUE)
  \/ PTTimeout(m, TRUE)
  \/ \E explorerOK \in BOOLEAN : PTTick(m, explorerOK)
  \/ PTUnconfirmedObserved(m, TRUE)
  \/ PTConfirmed(m, TRUE)
  \/ PTStorePaymentInfo(m, TRUE)
  \/ \E api \in ApiAnswers : PTProcessExchange(m, api, TRUE, TRUE)
  \/ PTMarkFailed(m, TRUE)
  \/ PTMarkCompleted(m, TRUE)

NextPolls ==
  \/ CreateAtQuote
  \/ \E id \in TxIds : AsyncStage(id, TRUE)
  \/ \E m \in Monitors, id \in TxIds : StartPaymentMonitoring(m, id)
  \/ \E m \in Monitors : PTStepObserved(m)
  \/ Pay
  \/ Confirm
  \/ CacheExpires

SpecPolls == Init /\ [][NextPolls]_vars

----------------------------------------------------------------------------
(* The statements that update a request row, each called on its own on any *)
(* id: a row of the table or an id that names no row.                      *)

\* a request that passes the validation is created, the store at work
StoreCreate ==
  \E id \in UnusedIds(RequestIds) :
    \E req \in {r \in Requests : validationError(r) = ""},
       api \in ApiAnswers \ {ApiError} :
      CreateTransaction(id, req, TRUE, api, api, TRUE, TRUE, TRUE)

\* the statuses that the callers write
WrittenStatuses == {StatusProcessing, StatusCompleted}

\* the outcomes of calculateFinalOutput handed to the final_output write
FinalOutputs ==
  {[err |-> TRUE, amount |-> 0], [err |-> FALSE, amount |-> 13992]}

\* TransactionService.UpdateTransactionStatus(id, status)
UpdateTransactionStatusCall(id, status, up) ==
  LET r == UpdateTransactionStatus(transactions, id, status, up) IN
  /\ transactions' = r.transactions
  /\ call' = [fn |-> "UpdateTransactionStatus", id |-> id, up |-> up,
              found |-> id \in DOMAIN transactions,
              err |-> IF ~r.err THEN ""
                      ELSE IF up THEN "transaction not found"
                      ELSE "failed to update transaction status"]
  /\ UNCHANGED <<payments, asyncTask, monitors, chain, priceCache, priceDB,
                 addresses, wallets, priceCalls, rateLimiter>>

\* PaymentProcessor.updateTransactionStatus(ctx, id, status)
updateTransactionStatusCall(id, status, up) ==
  LET r == updateTransactionStatus(transactions, id, status, up) IN
  /\ transactions' = r.transactions
  /\ call' = [fn |-> "updateTransactionStatus", id |-> id, up |-> up,
              found |-> id \in DOMAIN transactions,
              err |-> IF ~r.err THEN ""
                      ELSE IF up THEN "transaction not found"
                      ELSE "failed to update transaction status"]
  /\ UNCHANGED <<payments, asyncTask, monitors, chain, priceCache, priceDB,
                 addresses, wallets, priceCalls, rateLimiter>>

\* PaymentProcessor.processExchange on a request with the given id, past
\* calculateFinalOutput: the write of final_output and the error returned
processExchangeCall(id, finalOutput, up) ==
  LET r == processExchange(transactions, id, finalOutput, up) IN
  /\ transactions' = r.transactions
  /\ call' = [fn |-> "processExchange", id |-> id, up |-> up,
              found |-> id \in DOMAIN transactions,
              err |-> IF r.err THEN "failed to calculate final output"
                      ELSE ""]
  /\ UNCHANGED <<payments, asyncTask, monitors, chain, priceCache, priceDB,
                 addresses, wallets, priceCalls, rateLimiter>>

NextStore ==
  \/ StoreCreate
  \/ \E id \in RequestIds, status \in WrittenStatuses, up \in BOOLEAN :
       UpdateTransactionStatusCall(id, status, up)
  \/ \E id \in RequestIds, status \in WrittenStatuses, up \in BOOLEAN :
       updateTransactionStatusCall(id, status, up)
  \/ \E id \in RequestIds, finalOutput \in FinalOutputs, up \in BOOLEAN :
       processExchangeCall(id, finalOutput, up)

SpecStore == Init /\ [][NextStore]_vars

----------------------------------------------------------------------------
(* BlockchainExplorer.CheckPayment called on any address statistics *)

\* satoshi sums that the explorer reports, around the expected amounts
SatAmounts == {0, 400000, 600000, 1000000, 1200000}

ExpectedAmounts == {600000, 1000000}

\* the statistics of one side (chain or mempool) with the given sums
StatsOf(funded, spent) ==
  [funded_txo_count |-> IF funded > 0 THEN 1 ELSE 0,
   funded_txo_sum |-> funded, spent_txo_sum |-> spent]

\* answers of the explorer's address endpoint: the chain never spends more
\* than it funded; the mempool may spend confirmed outputs
AddressStats ==
  { [chain_stats |-> StatsOf(q[1], q[2]), mempool_stats |-> StatsOf(q[3], q[4])] :
      q \in { q \in SatAmounts \X SatAmounts \X SatAmounts \X SatAmounts :
                q[2] <= q[1] } }

\* transactions that the explorer lists for the address: an output to the
\* address, alone or after an output to another address
ListedTx(txid, confirmed, value, change) ==
  [TXID |-> txid, Confirmed |-> confirmed,
   Vout |-> (IF change
               THEN << [scriptpubkey_address |-> OtherAddress,
                        value |-> 1000000] >>
               ELSE << >>)
            \o << [scriptpubkey_address |-> DepositAddress,
                   value |-> value] >>]

ListedTransactions ==
  { ListedTx("a", TRUE, 600000, FALSE), ListedTx("b", TRUE, 600000, TRUE),
    ListedTx("c", FALSE, 600000, FALSE), ListedTx("d", TRUE, 400000, FALSE),
    ListedTx("e", FALSE, 400000, FALSE), ListedTx("f", FALSE, 600000, TRUE) }

\* answers of the explorer's transactions endpoint: up to two transactions
TransactionLists ==
  {<< >>} \cup {<<t>> : t \in ListedTransactions}
    \cup {p \in ListedTransactions \X ListedTransactions : p[1] # p[2]}

\* what the outputs of the listed transactions, confirmed or not, pay to
\* the address
RECURSIVE FundedBy(_, _)
FundedBy(txs, confirmed) ==
  IF txs = << >> THEN 0
  ELSE FundedBy(Tail(txs), confirmed)
         + (IF Head(txs).Confirmed = confirmed
              THEN Head(txs).Vout[Len(Head(txs).Vout)].value
              ELSE 0)

\* the answers of the address endpoint that agree with the list
StatsAgreeingWith(txs) ==
  { stats \in AddressStats :
      /\ stats.chain_stats.funded_txo_sum = FundedBy(txs, TRUE)
      /\ stats.mempool_stats.funded_txo_sum = FundedBy(txs, FALSE) }

CheckPaymentCall(stats, txs, expectedAmount) ==
  LET result == CheckPayment(stats, expectedAmount) IN
  /\ call' = [fn |-> "CheckPayment", stats |-> stats,
              transactions |-> txs,
              expectedAmount |-> expectedAmount,
              result |-> result,
              PaymentTXID |-> PaymentTXID(result.Status, txs, expectedAmount)]
  /\ UNCHANGED <<transactions, payments, asyncTask, monitors, chain,
                 priceCache, priceDB, addresses, wallets, priceCalls, rateLimiter>>

NextExplorer ==
  \E txs \in TransactionLists, expectedAmount \in ExpectedAmounts :
    \E stats \in StatsAgreeingWith(txs) :
      CheckPaymentCall(stats, txs, expectedAmount)

SpecExplorer == Init /\ [][NextExplorer]_vars

----------------------------------------------------------------------------
(* Properties of the life cycle of a request *)

Terminal == {StatusCompleted, StatusFailed, StatusExpired}

Chain == {StatusPending, StatusWaiting, StatusProcessing, StatusCompleted}

\* the position of a status in pending < waiting < processing < completed
Rank(status) ==
  CASE status = StatusPending -> 0 [] status = StatusWaiting -> 1
    [] status = StatusProcessing -> 2 [] OTHER -> 3

\* the write of new over old moves the request forward
Forward(old, new) ==
  \/ new \in {StatusFailed, StatusExpired}
  \/ old \in Chain /\ new \in Chain /\ Rank(old) < Rank(new)

\* the rows of the payments table that belong to request id
PaymentsOf(id) ==
  {i \in 1..Len(payments) : payments[i].transaction_id = id}

\* what a poll of the deposit address of request id answers now
Classification(id) ==
  CheckPayment(chain, BTCToSatoshis(transactions[id].btc_amount)).Status

\* request id is not finalized: no PaymentRecord, final_output unset
NotFinalized(id) ==
  PaymentsOf(id) = {} /\ transactions[id].final_output = NullOutput

\* C1: every write of a request's status moves it forward in the order
\* pending < waiting < processing < completed, or into failed or expired;
\* no step moves the status back.
C1_StatusMovesForward ==
  [][\A id \in DOMAIN transactions :
       transactions'[id].status # transactions[id].status
         => Forward(transactions[id].status, transactions'[id].status)]_vars

\* C2: completed, failed and expired are absorbing: once the status of a
\* request is one of them, no step changes it.
C2_TerminalAbsorbing ==
  [][\A id \in DOMAIN transactions :
       transactions[id].status \in Terminal
         => transactions'[id].status = transactions[id].status]_vars

\* C3: a request is completed only if the deposit address holds a confirmed
\* balance of at least the expected satoshis.
C3_CompletedOnlyConfirmed ==
  \A id \in DOMAIN transactions :
    transactions[id].status = StatusCompleted
      => Classification(id) = "confirmed"

\* the deposit address of request id has received exactly the expected
\* amount, confirmed
ExactConfirmedDeposit(id) ==
  /\ chain.mempool_stats.funded_txo_sum = 0
  /\ chain.chain_stats.funded_txo_sum
       = BTCToSatoshis(transactions[id].btc_amount)

\* C4: once the deposit address has received exactly the expected amount,
\* confirmed, every change of the status goes to the next of pending,
\* waiting, processing, completed (or, on an error, to failed or expired),
\* and a completed request has exactly one PaymentRecord, with
\* classification confirmed.
C4_ExactDepositSettles ==
  /\ [](\A id \in TxIds :
          (id \in DOMAIN transactions /\ ExactConfirmedDeposit(id)
             /\ transactions[id].status = StatusCompleted)
            => /\ Cardinality(PaymentsOf(id)) = 1
               /\ \A i \in PaymentsOf(id) : payments[i].status = "confirmed")
  /\ [][\A id \in DOMAIN transactions :
          (ExactConfirmedDeposit(id)
             /\ transactions'[id].status # transactions[id].status)
            => \/ transactions'[id].status \in {StatusFailed, StatusExpired}
               \/ /\ transactions[id].status \in Chain
                  /\ transactions'[id].status \in Chain
                  /\ Rank(transactions'[id].status)
                       = Rank(transactions[id].status) + 1]_vars

\* C5: a step that a run of ProcessTransaction takes while its request is
\* finalized (status completed, failed or expired) is a no-op: it changes
\* neither the request's row (status, final_output) nor the PaymentRecords.
C5_RunOnFinalizedIsNoOp ==
  [][\A m \in Monitors :
       (/\ monitors[m].pc # "idle"
        /\ monitors'[m] # monitors[m]
        /\ monitors[m].id \in DOMAIN transactions
        /\ transactions[monitors[m].id].status \in Terminal)
         => transactions' = transactions /\ payments' = payments]_vars

\* the watch window of a ProcessTransaction run on request id is over and
\* no poll has answered Confirmed: the run is back at the select with its
\* last tick behind it, and the deposit address has no confirmed balance of
\* the expected amount
WindowElapsed(id) ==
  /\ id \in DOMAIN transactions
  /\ Classification(id) # "confirmed"
  /\ \E m \in Monitors :
       /\ monitors[m].pc = "select"
       /\ monitors[m].id = id
       /\ monitors[m].ticks = WatchTicks

\* C6: when the watch window is over and no poll has answered Confirmed,
\* the request eventually has status expired.
C6_WindowElapsedExpires ==
  \A id \in TxIds :
    WindowElapsed(id)
      ~> (id \in DOMAIN transactions
            /\ transactions[id].status = StatusExpired)

\* C7: a request that is expired and whose deposit address has received no
\* funds has no PaymentRecord and no final_output.
C7_ExpiredUnfundedNotFinalized ==
  \A id \in DOMAIN transactions :
    (transactions[id].status = StatusExpired /\ Deposits = 0)
      => NotFinalized(id)

\* a request is expired and its deposit address never received funds
C7_Witness ==
  \E id \in DOMAIN transactions :
    transactions[id].status = StatusExpired /\ Deposits = 0

\* C8: when the settlement step of ProcessTransaction leaves final_output
\* unset (computing the final output failed, or persisting it failed), the
\* run goes on to mark the request failed, not completed.
C8_SettlementFailureFails ==
  [][\A m \in Monitors :
       (/\ monitors[m].pc = "exchange"
        /\ monitors'[m].pc # "exchange"
        /\ transactions'[monitors[m].id].final_output = NullOutput)
         => monitors'[m].pc = "mark_failed"]_vars

\* C9: while the deposit address has no confirmed balance of the expected
\* amount (every poll has answered Pending or Unconfirmed), the request is
\* not finalized; and the step that handles an Unconfirmed answer leaves
\* the request in processing and the run polling.
C9_UnconfirmedNotFinalized ==
  /\ [](\A id \in TxIds :
          (id \in DOMAIN transactions /\ Classification(id) # "confirmed")
            => NotFinalized(id))
  /\ [][\A m \in Monitors :
          (monitors[m].pc = "unconfirmed" /\ monitors'[m] # monitors[m])
            => /\ monitors'[m].pc = "select"
               /\ transactions'[monitors[m].id].status = StatusProcessing]_vars

\* C10: when a run of ProcessTransaction returns, the status of its request
\* is completed, failed or expired.
C10_ReturnsOnlyTerminal ==
  [][\A m \in Monitors :
       (/\ monitors[m].pc # "idle"
        /\ monitors'[m].pc = "idle"
        /\ monitors[m].id \in DOMAIN transactions')
         => transactions'[monitors[m].id].status \in Terminal]_vars

\* a step of run m that polls and comes back to the select without acting
\* on an answer: the poll failed (or answered Pending)
PollAbsorbed(m) ==
  /\ monitors[m].pc = "select"
  /\ monitors'[m].pc = "select"
  /\ monitors'[m].ticks = monitors[m].ticks + 1

\* the step of run m that ends the watch window
DeadlineStep(m) ==
  /\ monitors[m].pc = "select"
  /\ monitors[m].ticks = WatchTicks
  /\ monitors'[m].pc = "idle"

\* C11: a failed poll leaves the request's row and the PaymentRecords
\* unchanged and the run polls again at its next tick; and a run that
\* reaches the deadline (so also one that saw only failed polls) leaves the
\* request expired, not failed.
C11_UpstreamErrorsAbsorbed ==
  /\ [][\A m \in Monitors :
          PollAbsorbed(m)
            => transactions' = transactions /\ payments' = payments]_vars
  /\ [][\A m \in Monitors :
          (DeadlineStep(m) /\ monitors[m].id \in DOMAIN transactions)
            => transactions'[monitors[m].id].status = StatusExpired]_vars

\* the settlement step of run m, taken when no tier has a price: the cache
\* is empty before and after the step (no hit, no upstream answer) and the
\* price_cache table is empty
SettlementWithoutPrices(m) ==
  /\ monitors[m].pc = "exchange"
  /\ monitors'[m] # monitors[m]
  /\ priceCache' = NoPrices
  /\ priceDB = NoPrices

\* C12, as the spec states it: a price-unavailable error at settlement does
\* not mark the request failed; the run goes back to polling.
C12_PriceErrorRetried ==
  [][\A m \in Monitors :
       SettlementWithoutPrices(m) => monitors'[m].pc = "select"]_vars

\* C12, amended: a price-unavailable error at settlement is final.  The run
\* takes the failure branch with the row and the PaymentRecords as they
\* were, and the step of that branch ends the run, leaving the request
\* failed unless the store rejects the write.
C12_PriceErrorFails ==
  /\ [][\A m \in Monitors :
          SettlementWithoutPrices(m)
            => /\ monitors'[m].pc = "mark_failed"
               /\ transactions' = transactions
               /\ payments' = payments]_vars
  /\ [][\A m \in Monitors :
          (monitors[m].pc = "mark_failed" /\ monitors'[m] # monitors[m])
            => /\ monitors'[m].pc = "idle"
               /\ \/ transactions' = transactions
                  \/ transactions'[monitors[m].id].status = StatusFailed]_vars

\* a run is in the failure branch of the settlement and no tier has a price
C12_Witness ==
  \E m \in Monitors :
    /\ monitors[m].pc = "mark_failed"
    /\ priceCache = NoPrices
    /\ priceDB = NoPrices

\* the tasks that are at work on request id: the goroutine launched by
\* CreateTransaction, until it returns, and the running ProcessTransaction
\* goroutines
ActiveTasks(id) ==
  Cardinality({m \in Monitors :
                 monitors[m].pc # "idle" /\ monitors[m].id = id})
    + (IF asyncTask[id] \in {"idle", "done"} THEN 0 ELSE 1)

\* C13: at most one task is at work on a request at any time.
C13_OneTaskPerRequest ==
  \A id \in RequestIds : ActiveTasks(id) <= 1

\* the confirmed and the unconfirmed balance of the statistics: funded
\* minus spent, on the chain and in the mempool
ConfirmedBalanceOf(stats) ==
  stats.chain_stats.funded_txo_sum - stats.chain_stats.spent_txo_sum

UnconfirmedBalanceOf(stats) ==
  stats.mempool_stats.funded_txo_sum - stats.mempool_stats.spent_txo_sum

\* C14: CheckPayment answers confirmed if and only if the confirmed balance
\* (chain funded minus chain spent) is at least the expected satoshis.
C14_ConfirmedIffBalance ==
  call.fn = "CheckPayment"
    => (call.result.Status = "confirmed"
          <=> ConfirmedBalanceOf(call.stats) >= call.expectedAmount)

\* CheckPayment has answered confirmed for an address that has spent outputs
C14_Witness ==
  /\ call.fn = "CheckPayment"
  /\ call.result.Status = "confirmed"
  /\ call.stats.chain_stats.spent_txo_sum > 0

\* C15: CheckPayment answers unconfirmed if and only if confirmed balance
\* < expected <= unconfirmed balance + confirmed balance, and pending in
\* every remaining case.
C15_UnconfirmedIffSum ==
  call.fn = "CheckPayment"
    => /\ call.result.Status = "unconfirmed"
            <=> /\ ConfirmedBalanceOf(call.stats) < call.expectedAmount
                /\ call.expectedAmount
                     <= UnconfirmedBalanceOf(call.stats)
                          + ConfirmedBalanceOf(call.stats)
       /\ call.result.Status = "pending"
            <=> UnconfirmedBalanceOf(call.stats)
                  + ConfirmedBalanceOf(call.stats) < call.expectedAmount

----------------------------------------------------------------------------
(* Properties of CreateTransaction *)

\* the rules of creation, as the spec words them, on a request
RuleA(req) == req.OutputCurrency \in Symbols

RuleB(req) ==
  /\ Len(req.OutputAddresses) \in 1..7
  /\ \A i \in 1..Len(req.OutputAddresses) :
       /\ req.OutputAddresses[i].address # ""
       /\ ValidateAddress(req.OutputAddresses[i].address, req.OutputCurrency)

RECURSIVE PercentageSum(_, _)
\* the sum of the first n percentages
PercentageSum(outs, n) ==
  IF n = 0 THEN 0 ELSE outs[n].percentage + PercentageSum(outs, n - 1)

RuleC(outs) ==
  /\ \A i \in 1..Len(outs) :
       outs[i].percentage > 0 /\ outs[i].percentage <= 1000
  /\ PercentageSum(outs, Len(outs)) \in 999..1001

RuleViolated(req) ==
  ~(RuleA(req) /\ RuleB(req) /\ RuleC(req.OutputAddresses))

\* the first violated rule of a request that violates one
FirstViolatedRule(req) ==
  IF ~RuleA(req) THEN "a" ELSE IF ~RuleB(req) THEN "b" ELSE "c"

\* the rule that an error of the validation names
RuleNamedBy(err) ==
  CASE err = "unsupported output currency" -> "a"
    [] err \in {"at least one output address is required",
                "maximum 7 output addresses allowed",
                "address is empty", "invalid address for currency"} -> "b"
    [] err \in {"invalid percentage for address",
                "invalid percentage allocation"} -> "c"
    [] OTHER -> "none"

\* the step is a call of CreateTransaction
CreateCalled ==
  call' # call /\ call'.fn = "CreateTransaction"

\* C16: a call of CreateTransaction whose request violates a rule returns
\* an error, persists no request, issues no deposit address or key and
\* starts no background task.
C16_RejectedLeavesNothing ==
  [][(CreateCalled /\ RuleViolated(call'.req))
       => /\ call'.err # ""
          /\ UNCHANGED <<transactions, payments, asyncTask, monitors, chain,
                         priceCache, priceDB, addresses, wallets, priceCalls, rateLimiter>>]_vars

\* CreateTransaction has been called with a request that violates a rule
C16_Witness ==
  call.fn = "CreateTransaction" /\ RuleViolated(call.req)

\* C17: a call of CreateTransaction that fails after validation leaves no
\* request row, no issued deposit address or key and no background task.
C17_FailureLeavesNothing ==
  [][(/\ CreateCalled
      /\ call'.err \in {"failed to generate payment address",
                        "failed to calculate estimated output",
                        "failed to create transaction"})
       => UNCHANGED <<transactions, asyncTask, addresses, wallets, priceCalls, rateLimiter>>]_vars

\* C18: the error of a rejected request names the first rule the request
\* violates in the order (a) asset, (b) addresses, (c) percentages.
C18_FirstViolatedRuleNamed ==
  (call.fn = "CreateTransaction" /\ RuleViolated(call.req))
    => RuleNamedBy(call.err) = FirstViolatedRule(call.req)

\* C19: every persisted request has 1 to 7 output addresses, each with a
\* percentage in (0,100], summing to a value in [99.9, 100.1]; and a call
\* with 0 or with 8 output addresses returns a validation error.
C19_PersistedAllocationValid ==
  /\ \A id \in DOMAIN transactions :
       /\ Len(transactions[id].output_addresses) \in 1..7
       /\ RuleC(transactions[id].output_addresses)
  /\ (call.fn = "CreateTransaction"
        /\ Len(call.req.OutputAddresses) \in {0, 8})
       => RuleNamedBy(call.err) # "none"

\* a request with seven output addresses is persisted
C19_Witness ==
  \E id \in DOMAIN transactions : Len(transactions[id].output_addresses) = 7

----------------------------------------------------------------------------
(* Properties of the stored request *)

\* the fields of a row that creation sets
CreationFields(row) ==
  [btc_amount |-> row.btc_amount,
   output_currency |-> row.output_currency,
   output_addresses |-> row.output_addresses,
   payment_address |-> row.payment_address,
   fee |-> row.fee,
   estimated_output |-> row.estimated_output]

----------------------------------------------------------------------------
(* Properties of the keys *)

\* C22: every deposit address that GenerateAddressWithKey returned has an
\* encrypted key row in the wallets table.
C22_IssuedAddressHasStoredKey ==
  \A address \in DOMAIN addresses : address \in DOMAIN wallets

\* C23: a release that returns a key returns the key generated with the
\* address (the key that re-derives it), from the wallets table and from
\* the map of WalletManager alike; and every stored row decrypts, under the
\* key that encrypted it, to the serialized key of its address.
C23_ReleaseReturnsGeneratedKey ==
  /\ (call.fn \in {"GetPrivateKey", "WalletManager.GetPrivateKey"}
        /\ call.err = "")
       => AddressOfKey(call.privateKey) = call.address
  /\ \A address \in DOMAIN wallets :
       LET stored == DecodeString(wallets[address].encrypted_priv_key)
           opened == decrypt(stored.bytes)
       IN /\ ~stored.err
          /\ ~opened.err
          /\ AddressOfKey(PrivKeyFromBytes(opened.plaintext)) = address

\* a key of two significant bytes was released from the wallets table
C23_Witness ==
  /\ call.fn = "GetPrivateKey"
  /\ call.err = ""
  /\ call.privateKey > 256

\* the address has an active row in the wallets table
ActiveKey(address) ==
  address \in DOMAIN wallets /\ wallets[address].is_active

----------------------------------------------------------------------------
(* Properties of the price service *)

\* the step is a call of GetPrices, by itself or in CalculateExchangeRate
PricesCalled ==
  call' # call /\ call'.fn \in {"GetPrices", "CalculateExchangeRate"}

CacheComplete == \A s \in Symbols : s \in DOMAIN priceCache

\* C25: GetPrices answers from the cache only when the cache holds a price
\* for each of the seven symbols, and what it answers from the cache has
\* the seven symbols.
C25_CacheServesAllSymbols ==
  [][(call' # call /\ call'.fn = "GetPrices" /\ call'.tier = "cache")
       => /\ CacheComplete
          /\ ~call'.err
          /\ DOMAIN call'.prices = Symbols
          /\ call'.prices = priceCache]_vars

\* GetPrices answered from the cache
C25_Witness ==
  call.fn = "GetPrices" /\ call.tier = "cache"

\* C26: a conversion that fails for want of a price, while the store
\* answers, finds a symbol that neither the cache, nor the upstream
\* response, nor the price_cache table holds.
C26_FailsOnlyIfNoTierHolds ==
  [][(PricesCalled /\ call'.fn = "CalculateExchangeRate"
        /\ call'.err /\ call'.up)
       => \E s \in {call'.fromCurrency, call'.toCurrency} :
            /\ s \notin DOMAIN priceCache
            /\ call'.api.err \/ s \notin DOMAIN call'.api.prices
            /\ s \notin DOMAIN priceDB]_vars

\* C27: on a cache miss with a failed upstream call GetPrices returns the
\* rows of the price_cache table (an error if the query fails); and after
\* a successful fetch the table holds, for every fetched symbol, the price
\* just fetched.
C27_SnapshotFollowsFetch ==
  [][(PricesCalled /\ ~CacheComplete)
       => /\ (call'.fn = "GetPrices" /\ call'.api.err)
               => IF call'.up
                    THEN ~call'.err /\ call'.prices = priceDB
                    ELSE call'.err
          /\ ~call'.api.err
               => \A s \in DOMAIN call'.api.prices :
                    s \in DOMAIN priceDB' /\ priceDB'[s] = call'.api.prices[s]]_vars

\* C28: a conversion from BTC to BTC that returns returns its amount.
C28_BTCToBTCIsIdentity ==
  (/\ call.fn = "CalculateExchangeRate"
   /\ call.fromCurrency = "BTC"
   /\ call.toCurrency = "BTC"
   /\ ~call.err)
    => call.result = Float(call.amount)

----------------------------------------------------------------------------
(* Properties of the quote and of the final output *)

\* the fee rate of the spec, times 1000: 0.2% for BTC, 0.5% otherwise
QuotedFeeRate(asset) == IF asset = "BTC" THEN 2 ELSE 5

\* btcAmount * btcPrice * (1 - feeRate) / outputPrice, truncated to the unit
QuotedOutput(btcAmount, asset, prices) ==
  (((btcAmount * prices["BTC"]) \div 1000) * (1000 - QuotedFeeRate(asset)))
    \div prices[asset]

SettledOutput(btcAmount, asset, prices) ==
  ((((btcAmount * prices["BTC"]) \div prices[asset]))
     * (1000 - QuotedFeeRate(asset))) \div 1000

\* C30: a step that stores final_output stores the conversion of the BTC
\* amount at the prices GetPrices returns in that step (the cache when it
\* is complete, else what was just fetched, else the price_cache table),
\* minus the fee rate, and leaves estimated_output as quoted.
C30_FinalOutputAtSettlementPrices ==
  [][\A id \in DOMAIN transactions :
       (id \in DOMAIN transactions'
          /\ transactions'[id].final_output # transactions[id].final_output)
         => LET row == transactions'[id]
                prices == IF \A s \in Symbols : s \in DOMAIN priceCache'
                            THEN priceCache' ELSE priceDB'
            IN /\ row.final_output
                    = SettledOutput(row.btc_amount, row.output_currency, prices)
               /\ row.estimated_output = transactions[id].estimated_output]_vars

\* a request quoted at ETH 3200 was settled at ETH 3000
C30_Witness ==
  \E id \in DOMAIN transactions :
    /\ transactions[id].estimated_output = 13992
    /\ transactions[id].final_output = 14925

\* the step is a call of one of the statements that update a request row,
\* the store at work, on an id that names no row
ZeroRowUpdate ==
  /\ call' # call
  /\ call'.fn \in {"UpdateTransactionStatus", "updateTransactionStatus",
                   "processExchange"}
  /\ call'.up
  /\ ~call'.found

PayingPositions(confirmed) ==
  { i \in 1..Len(call.transactions) :
      /\ call.transactions[i].Confirmed = confirmed
      /\ HasPayingOutput(call.transactions[i], call.expectedAmount) }

\* the first of a non-empty set of positions
FirstOf(positions) == CHOOSE i \in positions : \A j \in positions : i <= j

\* C32: the payment transaction id that the payment check reports is that
\* of the first transaction of the list with an output paying the address
\* at least the expected amount: the first confirmed one when the payment is
\* classified confirmed, and the first unconfirmed one when it is classified
\* unconfirmed and no confirmed transaction pays.
C32_FirstPayingTransaction ==
  call.fn = "CheckPayment"
    => /\ (call.result.Status = "confirmed" /\ PayingPositions(TRUE) # {})
            => call.PaymentTXID
                 = call.transactions[FirstOf(PayingPositions(TRUE))].TXID
       /\ (/\ call.result.Status = "unconfirmed"
           /\ PayingPositions(TRUE) = {}
           /\ PayingPositions(FALSE) # {})
            => call.PaymentTXID
                 = call.transactions[FirstOf(PayingPositions(FALSE))].TXID

\* the step is the status write of the Unconfirmed branch, made by task m
WritesOnUnconfirmed(m) ==
  /\ call' # call
  /\ call'.fn = "updateTransactionStatus"
  /\ call'.task = m

\* C33: a task that wrote the status processing on an Unconfirmed answer
\* does not write it again on the Unconfirmed answer of its next poll while
\* the request is in processing: the write is made only when the request
\* is not already in processing.
C33_OneWritePerUnconfirmedRun ==
  [][\A m \in Monitors :
       (/\ WritesOnUnconfirmed(m)
        /\ call.fn = "updateTransactionStatus"
        /\ call.task = m
        /\ call'.poll = call.poll + 1)
         => transactions[call'.id].status # StatusProcessing]_vars

\* C34: while the prices are those of the quote, the final_output that a
\* settlement stores is the estimated_output quoted at creation (up to the
\* rounding of the last digit, one unit of 0.00001 coin, that the arithmetic
\* of the model truncates), for every output asset, BTC included.
C34_FinalOutputIsEstimate ==
  [][\A id \in DOMAIN transactions :
       (id \in DOMAIN transactions'
          /\ transactions'[id].final_output # transactions[id].final_output)
         => LET row == transactions'[id] IN
            /\ row.final_output <= row.estimated_output + 1
            /\ row.estimated_output <= row.final_output + 1]_vars

\* C35: every PaymentRecord in the payments table has the classification
\* confirmed, names a request of the transactions table, and records a
\* satoshi amount received of at least the expected satoshis of that
\* request.
C35_RecordsAreConfirmedPayments ==
  \A i \in 1..Len(payments) :
    /\ payments[i].status = "confirmed"
    /\ payments[i].transaction_id \in DOMAIN transactions
    /\ payments[i].amount_sats
         >= BTCToSatoshis(transactions[payments[i].transaction_id].btc_amount)

\* a PaymentRecord is stored for a request whose payment a block confirmed
C35_Witness ==
  /\ Len(payments) >= 1
  /\ payments[1].amount_sats > 0
  /\ chain.chain_stats.funded_txo_sum >= payments[1].amount_sats

\* C36: a GetPrices call that returns prices from the cache or from its
\* own fetch, while other calls refresh the cache and the cache expires,
\* returns the map of one upstream fetch: one of the upstream quotes, whole.
C36_PricesOfOneFetch ==
  (call.fn = "GetPrices" /\ ~call.err /\ call.tier \in {"cache", "api"})
    => call.prices \in MovingQuotes

\* C37: the requests of the client admitted since its counter key was last
\* absent (within one window) are at most rateLimit, whatever the number of
\* handlers serving the client at the same time.
C37_AtMostRateLimitAdmitted ==
  rateLimiter.admitted <= rateLimit

====
